---- MODULE Spec2Model ----
(***************************************************************************)
(* A model of lab13.cpp: the OBJ mesh loader (LoadOBJ, with its parseIndex *)
(* and pushVertex lambdas) and the startup / frame loop / shutdown of      *)
(* main().                                                                 *)
(*                                                                         *)
(* Numbers.  Floats are modelled by integers: dt in whole seconds, camera   *)
(* angles in degrees, the attributes of a Planet in thousandths (of a      *)
(* unit, of a radian per second, of a radian).  Rounding of float          *)
(* arithmetic is not modelled.  camPos, camRight, the view matrix and the  *)
(* model matrices rest on sin / cos and are not modelled; camFront is      *)
(* modelled by the <<yaw, pitch>> it is computed from.                     *)
(*                                                                         *)
(* Text.  A token of a face line is a sequence of one-character strings;   *)
(* std::string::find, substr and std::stoi are modelled on such sequences. *)
(* A line is modelled after its split at whitespace: its prefix and, for   *)
(* a face, its tokens; the three floats of a `v` line and the two of a     *)
(* `vt` line are carried as numbers (operator>> on floats is not           *)
(* modelled, and every modelled v / vt line has all its numbers).  The     *)
(* local `line` of LoadOBJ is not a variable of the model: nothing reads   *)
(* it after the iteration that read it.                                    *)
(***************************************************************************)
EXTENDS Integers, Sequences, FiniteSets, TLC

VARIABLES
    \* ---- LoadOBJ (lines 233-340) ----
    lpc,          \* position in LoadOBJ: "start", "lines", "returned", "aborted"
    positions,    \* std::vector<Vec3> positions
    texcoords,    \* std::vector<sf::Vector2f> texcoords
    outVertices,  \* std::vector<float>& outVertices
    loadResult,   \* the value LoadOBJ returned: "none" until it returns, then "true" / "false"
    fileOpened,   \* file.is_open()
    faceLog,      \* history: the face lines read so far, each with the sizes of
                  \* positions, texcoords and outVertices at the time it was read
    \* ---- main (lines 412-644) ----
    pc,           \* position in main
    exitStatus,   \* value returned by main: -1 while it runs
    windowOpen,   \* window.isOpen()
    err,          \* GLenum err = glewInit()
    linkSuccess,  \* GL_LINK_STATUS of prog
    modelData,    \* std::vector<float> modelData
    loaded,       \* what LoadOBJ("model.obj", modelData) returned: "none" before the call
    vertexCount,  \* modelMesh.vertexCount
    tex,          \* GLuint tex (0: not created)
    glLog,        \* history: the GL objects created and deleted, in call order
    yaw, pitch,   \* float yaw, pitch, in degrees
    camFront,     \* the <<yaw, pitch>> from which calcCameraFront last computed camFront
    proj,         \* the aspect ratio, <<numerator, denominator>>, held by proj
    randState,    \* state of rand(): the value it last returned
    planets,      \* std::vector<Planet> planets
    dt,           \* float dt of the current iteration, in seconds
    frame,        \* history: number of loop iterations started
    elapsed,      \* history: the sum of the dt of the iterations started
    frameLog      \* history: what the current iteration has done so far

lvars == <<lpc, positions, texcoords, outVertices, loadResult, fileOpened, faceLog>>
mvars == <<pc, exitStatus, windowOpen, err, linkSuccess, modelData, loaded, vertexCount,
           tex, glLog, yaw, pitch, camFront, proj, randState, planets, dt, frame, elapsed,
           frameLog>>
vars == <<lvars, mvars>>

----------------------------------------------------------------------------
\* Bounds of the model.

\* at most this many `v` lines in a file
MaxPos == 4
\* at most this many `vt` lines in a file
MaxTex == 1
\* at most this many `f` lines in a file
MaxFaces == 1
\* at most this many iterations of the frame loop are started
MaxFrames == 2
\* the number of planets around the sun (100 in the source, line 511)
planetCount == 2
\* the largest value of rand() (at least 32767 in a C library)
RAND_MAX == 7

----------------------------------------------------------------------------
\* Text helpers: std::string::find, std::stoi.

Digits == {"0", "1", "2", "3", "4", "5", "6", "7", "8", "9"}

DigitVal(c) ==
    CASE c = "0" -> 0 [] c = "1" -> 1 [] c = "2" -> 2 [] c = "3" -> 3 [] c = "4" -> 4
      [] c = "5" -> 5 [] c = "6" -> 6 [] c = "7" -> 7 [] c = "8" -> 8 [] c = "9" -> 9

\* s.find(c, from): the least index i >= from with s[i] = c; 0 stands for npos.
\* Indices are 1-based here and 0-based in the source.
RECURSIVE Find(_, _, _)
Find(s, c, from) ==
    IF from > Len(s) THEN 0
    ELSE IF s[from] = c THEN from
    ELSE Find(s, c, from + 1)

\* The digits of s from index i on, read as a decimal number continuing acc,
\* up to the first character that is no digit.
RECURSIVE ReadDigits(_, _, _)
ReadDigits(s, i, acc) ==
    IF i > Len(s) \/ s[i] \notin Digits THEN acc
    ELSE ReadDigits(s, i + 1, 10 * acc + DigitVal(s[i]))

\* std::stoi(s): an optional sign, then digits; what follows the digits is ignored;
\* with no digit at all it throws std::invalid_argument (ok = FALSE).
Stoi(s) ==
    LET signed == Len(s) >= 1 /\ s[1] \in {"-", "+"}
        first  == IF signed THEN 2 ELSE 1
        hasDig == first <= Len(s) /\ s[first] \in Digits
        mag    == ReadDigits(s, first, 0)
    IN  IF ~hasDig THEN [ok |-> FALSE, val |-> 0]
        ELSE [ok |-> TRUE, val |-> IF signed /\ s[1] = "-" THEN 0 - mag ELSE mag]

----------------------------------------------------------------------------
\* LoadOBJ's lambdas.

\* parseIndex (lines 273-295): vi and ti of a token; thrown when a std::stoi threw.
parseIndex(s) ==
    LET firstSlash == Find(s, "/", 1)
    IN  IF firstSlash = 0
        THEN LET r == Stoi(s) IN [thrown |-> ~r.ok, vi |-> r.val, ti |-> 0]
        ELSE
          LET vStr  == SubSeq(s, 1, firstSlash - 1)
              rv    == IF vStr # <<>> THEN Stoi(vStr) ELSE [ok |-> TRUE, val |-> 0]
              secondSlash == Find(s, "/", firstSlash + 1)
              vtStr == IF secondSlash = 0
                       THEN SubSeq(s, firstSlash + 1, Len(s))
                       ELSE SubSeq(s, firstSlash + 1, secondSlash - 1)
              rt    == IF vtStr # <<>> THEN Stoi(vtStr) ELSE [ok |-> TRUE, val |-> 0]
          IN  IF ~rv.ok THEN [thrown |-> TRUE, vi |-> 0, ti |-> 0]
              ELSE [thrown |-> ~rt.ok, vi |-> rv.val, ti |-> rt.val]

\* Mutant of VertexUV: a texture index beyond the texture coordinates takes the last one.
VertexUVClamped(tcs, ti) ==
    IF ti > 0 /\ tcs # <<>> THEN tcs[IF ti <= Len(tcs) THEN ti ELSE Len(tcs)] ELSE <<0, 0>>

\* The UV pushVertex gives a vertex (lines 302-304).
VertexUV(tcs, ti) ==
    IF ti > 0 /\ ti <= Len(tcs) THEN tcs[ti] ELSE <<0, 0>>

\* Mutant of SkipVertex: the last position counts as out of range.
SkipVertexOffByOne(pos, vi) == vi <= 0 \/ vi >= Len(pos)

\* The test on the position index with which pushVertex returns early (line 299).
SkipVertex(pos, vi) == vi <= 0 \/ vi > Len(pos)

\* pushVertex (lines 297-311): the stream after pushVertex(vi, ti).
pushVertex(out, pos, tcs, vi, ti) ==
    IF SkipVertex(pos, vi) THEN out
    ELSE LET p == pos[vi]
             t == VertexUV(tcs, ti)
         IN  out \o <<p[1], p[2], p[3], t[1], t[2]>>

\* Mutant of FanLoop: a strip (v(i-1), v(i), v(i+1)) in place of the fan.
RECURSIVE FanLoopStrip(_, _, _, _, _, _)
FanLoopStrip(i, tokens, p0, out, pos, tcs) ==
    IF ~(i + 1 <= Len(tokens)) THEN [out |-> out, thrown |-> FALSE]
    ELSE LET p1 == parseIndex(tokens[i])
             p2 == parseIndex(tokens[i + 1])
         IN  IF p1.thrown \/ p2.thrown THEN [out |-> out, thrown |-> TRUE]
             ELSE FanLoopStrip(i + 1, tokens, p1,
                               pushVertex(pushVertex(pushVertex(out, pos, tcs, p0.vi, p0.ti),
                                                     pos, tcs, p1.vi, p1.ti),
                                          pos, tcs, p2.vi, p2.ti),
                               pos, tcs)

\* The fan loop (lines 318-327) from index i on; tokens are 1-based here, so the
\* source's i = 1 is i = 2.  Yields the stream, and thrown when a parseIndex threw
\* (the stream is then as it was at the throw).
RECURSIVE FanLoop(_, _, _, _, _, _)
FanLoop(i, tokens, p0, out, pos, tcs) ==
    IF ~(i + 1 <= Len(tokens)) THEN [out |-> out, thrown |-> FALSE]
    ELSE LET p1 == parseIndex(tokens[i])
             p2 == parseIndex(tokens[i + 1])
         IN  IF p1.thrown \/ p2.thrown THEN [out |-> out, thrown |-> TRUE]
             ELSE FanLoop(i + 1, tokens, p0,
                          pushVertex(pushVertex(pushVertex(out, pos, tcs, p0.vi, p0.ti),
                                                pos, tcs, p1.vi, p1.ti),
                                     pos, tcs, p2.vi, p2.ti),
                          pos, tcs)

\* The body of the `f` branch after the tokens are split (lines 313-327).
ProcessFace(tokens, out, pos, tcs) ==
    IF Len(tokens) < 3 THEN [out |-> out, thrown |-> FALSE]
    ELSE LET p0 == parseIndex(tokens[1])
         IN  IF p0.thrown THEN [out |-> out, thrown |-> TRUE]
             ELSE FanLoop(2, tokens, p0, out, pos, tcs)

----------------------------------------------------------------------------
\* Lines of a file.

VLine(val)   == [prefix |-> "v",  val |-> val,  tokens |-> <<>>]
VTLine(val)  == [prefix |-> "vt", val |-> val,  tokens |-> <<>>]
FLine(toks)  == [prefix |-> "f",  val |-> <<>>, tokens |-> toks]
OtherLine(p) == [prefix |-> p,    val |-> <<>>, tokens |-> <<>>]

\* The k-th `v` line of a modelled file is `v 10k+1 10k+2 10k+3`, the k-th `vt`
\* line is `vt 100k+1 100k+2`: every coordinate of a file is a different number.
PosOf(k) == <<10 * k + 1, 10 * k + 2, 10 * k + 3>>
TexOf(k) == <<100 * k + 1, 100 * k + 2>>

\* One iteration of the getline loop (lines 246-329) on line ln, from the state
\* st = [positions, texcoords, out, thrown].
ProcessLine(st, ln) ==
    IF ln.prefix = "v"
    THEN [st EXCEPT !.positions = Append(@, ln.val)]
    ELSE IF ln.prefix = "vt"
    THEN [st EXCEPT !.texcoords = Append(@, ln.val)]
    ELSE IF ln.prefix = "f"
    THEN LET r == ProcessFace(ln.tokens, st.out, st.positions, st.texcoords)
         IN  [st EXCEPT !.out = r.out, !.thrown = r.thrown]
    ELSE st

\* Mutant of LoadOBJReturn: success needs a whole triangle.
LoadOBJReturnTriangle(out) == Len(out) >= 15

\* The value LoadOBJ returns after the loop (lines 331-339).
LoadOBJReturn(out) == out # <<>>

----------------------------------------------------------------------------
\* The face lines of the modelled files.

PlainTokens == <<  <<"1">>, <<"2">>, <<"3">>, <<"4">>  >>

\* Tokens other than a plain position index in range: a token std::stoi rejects,
\* index 0, a negative index, an index beyond any modelled file's positions, an empty
\* position index, a texture index in range, beyond range and zero, an empty texture
\* index before a normal index, and all three indices.
SpecialTokens ==
    << <<"x">>, <<"0">>, <<"-", "1">>, <<"1", "2">>, <<"/", "1">>,
       <<"2", "/", "1">>, <<"2", "/", "7">>, <<"3", "/", "0">>,
       <<"1", "/", "/", "1">>, <<"3", "/", "1", "/", "2">> >>

\* The face lines: no token, too few tokens, the plain triangle and quad, a triangle
\* in another order, a triangle with texture indices, and the triangle and the quad
\* with one token replaced by each special token in turn, at a place that changes
\* with the token.
FaceSet ==
    { <<>>, SubSeq(PlainTokens, 1, 2), SubSeq(PlainTokens, 1, 3), SubSeq(PlainTokens, 1, 4),
      << <<"3">>, <<"2">>, <<"1">> >>,
      << <<"1", "/", "1">>, <<"2", "/", "1">>, <<"3", "/", "1">> >> }
    \cup { [SubSeq(PlainTokens, 1, 3) EXCEPT ![((k - 1) % 3) + 1] = SpecialTokens[k]] :
             k \in DOMAIN SpecialTokens }
    \cup { [SubSeq(PlainTokens, 1, 4) EXCEPT ![((k + 2) % 4) + 1] = SpecialTokens[k]] :
             k \in DOMAIN SpecialTokens }

----------------------------------------------------------------------------
\* LoadOBJ, one action per step.

LInit ==
    /\ lpc = "start"
    /\ positions = <<>>
    /\ texcoords = <<>>
    /\ outVertices = <<>>
    /\ loadResult = "none"
    /\ fileOpened = FALSE
    /\ faceLog = <<>>

\* std::ifstream file(filename) does not open (lines 235-240).
OpenFails ==
    /\ lpc = "start"
    /\ lpc' = "returned"
    /\ loadResult' = "false"
    /\ UNCHANGED <<positions, texcoords, outVertices,fileOpened, faceLog, mvars>>

\* The file opens (lines 235-245).
OpenSucceeds ==
    /\ lpc = "start"
    /\ lpc' = "lines"
    /\ fileOpened' = TRUE
    /\ UNCHANGED <<positions, texcoords, outVertices,loadResult, faceLog, mvars>>

\* One iteration of the getline loop on the line ln (lines 246-329).
ReadLine(ln) ==
    /\ lpc = "lines"
    /\ LET st == ProcessLine([positions |-> positions, texcoords |-> texcoords,
                              out |-> outVertices, thrown |-> FALSE], ln)
       IN  /\ positions' = st.positions
           /\ texcoords' = st.texcoords
           /\ outVertices' = st.out
           /\ lpc' = IF st.thrown THEN "aborted" ELSE "lines"
    /\ faceLog' = IF ln.prefix = "f"
                  THEN Append(faceLog, [tokens |-> ln.tokens, np |-> Len(positions),
                                        nt |-> Len(texcoords), from |-> Len(outVertices)])
                  ELSE faceLog
    /\ UNCHANGED <<loadResult, fileOpened, mvars>>

ReadV ==
    /\ Len(positions) < MaxPos
    /\ ReadLine(VLine(PosOf(Len(positions) + 1)))

ReadVT ==
    /\ Len(texcoords) < MaxTex
    /\ ReadLine(VTLine(TexOf(Len(texcoords) + 1)))

ReadF ==
    /\ Len(faceLog) < MaxFaces
    /\ \E toks \in FaceSet : ReadLine(FLine(toks))

\* A blank line, or a line with another prefix (here a comment).
ReadIgnored ==
    \E p \in {"", "#"} : ReadLine(OtherLine(p))

\* getline reaches the end of the file: LoadOBJ returns (lines 331-339).
EndOfFile ==
    /\ lpc = "lines"
    /\ lpc' = "returned"
    /\ loadResult' = IF LoadOBJReturn(outVertices) THEN "true" ELSE "false"
    /\ UNCHANGED <<positions, texcoords, outVertices,fileOpened, faceLog, mvars>>

LNext ==
    OpenFails \/ OpenSucceeds \/ ReadV \/ ReadVT \/ ReadF \/ ReadIgnored \/ EndOfFile

\* LoadOBJ as a whole on a file (a sequence of lines) that opens: the state after
\* the getline loop, from line k on.
RECURSIVE ReadLines(_, _, _)
ReadLines(file, k, st) ==
    IF k > Len(file) \/ st.thrown THEN st
    ELSE ReadLines(file, k + 1, ProcessLine(st, file[k]))

\* LoadOBJ(filename, outVertices) called with the stream out (lines 233-340), on
\* file = [opens, lines]; thrown when a std::stoi threw, and LoadOBJ never returned.
LoadOBJ(file, out) ==
    IF ~file.opens THEN [ok |-> FALSE, out |-> out, thrown |-> FALSE]
    ELSE LET st == ReadLines(file.lines, 1, [positions |-> <<>>, texcoords |-> <<>>,
                                             out |-> out, thrown |-> FALSE])
         IN  [ok |-> ~st.thrown /\ LoadOBJReturn(st.out), out |-> st.out,
              thrown |-> st.thrown]


----------------------------------------------------------------------------
\* main: program constants and helpers.

GLEW_OK == 0
rotationSpeed == 50
PitchLimit == 89

\* The files model.obj of the modelled runs.
Tri(a, b, c) == FLine(<< a, b, c >>)
ThreeV == << VLine(PosOf(1)), VLine(PosOf(2)), VLine(PosOf(3)) >>
SampleFiles ==
    { [opens |-> FALSE, lines |-> <<>>],
      [opens |-> TRUE,  lines |-> <<>>],
      [opens |-> TRUE,  lines |-> ThreeV],
      [opens |-> TRUE,  lines |-> ThreeV \o << Tri(<<"1">>, <<"2">>, <<"3">>) >>],
      [opens |-> TRUE,  lines |-> ThreeV \o << VLine(PosOf(4)),
                                   FLine(SubSeq(PlainTokens, 1, 4)) >>],
      [opens |-> TRUE,  lines |-> ThreeV \o << Tri(<<"1">>, <<"2">>, <<"4">>) >>],
      [opens |-> TRUE,  lines |-> ThreeV \o << Tri(<<"4">>, <<"0">>, <<"5">>) >>],
      [opens |-> TRUE,  lines |-> ThreeV \o << Tri(<<"1">>, <<"2">>, <<"x">>) >>] }

\* The seeds srand is given (line 506).
SeedSet == 0 .. 1
\* The values clock.restart().asSeconds() yields (line 546).
DtSet == {0, 1, 4}

\* rand(): the value after s, of a linear congruential generator.
rand(s) == (5 * s + 3) % (RAND_MAX + 1)

\* frand (lines 507-510) on the value r of rand(), in thousandths.
frand(a, b, r) == a + ((b - a) * r) \div RAND_MAX

\* The planet the i-th iteration of lines 515-531 pushes, with rand() at s before
\* it; thousandths.  The five frand calls draw in source order.
MakePlanet(i, s) ==
    LET r1 == rand(s)
        r2 == rand(r1)
        r3 == rand(r2)
        r4 == rand(r3)
        r5 == rand(r4)
        orbitRadius == ((i \div 2) + 4) * 1000
    IN  [orbitRadius |-> orbitRadius,
         orbitSpeed  |-> (frand(500, 1500, r1) * 1000) \div orbitRadius,
         selfSpeed   |-> frand(300, 1500, r2),
         scale       |-> frand(400, 1500, r3),
         orbitAngle  |-> frand(0, 360000, r4),
         selfAngle   |-> frand(0, 360000, r5)]

\* The sun (line 513).
Sun == [orbitRadius |-> 0, orbitSpeed |-> 0, selfSpeed |-> 200, scale |-> 4000,
        orbitAngle |-> 0, selfAngle |-> 0]

\* rand() applied n times from s.
RECURSIVE randN(_, _)
randN(s, n) == IF n = 0 THEN s ELSE randN(rand(s), n - 1)

\* The loop of lines 515-531 from i on.
RECURSIVE BuildPlanets(_, _, _)
BuildPlanets(i, ps, s) ==
    IF ~(i < planetCount) THEN [planets |-> ps, rand |-> s]
    ELSE BuildPlanets(i + 1, Append(ps, MakePlanet(i, s)), randN(s, 5))

\* makeProjection (lines 487-491): the aspect ratio as <<numerator, denominator>>.
makeProjection(w, h) == IF h = 0 THEN <<1, 1>> ELSE <<w, h>>

\* Events of the window.
Closed == [type |-> "Closed", w |-> 0, h |-> 0]
Resized(w, h) == [type |-> "Resized", w |-> w, h |-> h]
EventSet == { Closed, Resized(800, 600), Resized(640, 0) }
\* What the event queue may hold when an iteration drains it.
EventQueues == { <<>> } \cup { <<e>> : e \in EventSet }
                 \cup { <<e, f>> : <<e, f>> \in EventSet \X EventSet }

\* One entry of frameLog.
Did(op, i, d) == [op |-> op, i |-> i, dt |-> d]

\* The event loop (lines 548-558) on the queue evs from its k-th event on:
\* pollEvent yields no event once the window is closed.
RECURSIVE Drain(_, _, _)
Drain(evs, k, st) ==
    IF k > Len(evs) \/ ~st.open THEN st
    ELSE LET e == evs[k]
         IN  Drain(evs, k + 1,
                   IF e.type = "Closed"
                   THEN [st EXCEPT !.open = FALSE, !.log = Append(@, Did("close", 0, 0))]
                   ELSE IF e.type = "Resized"
                   THEN [st EXCEPT !.proj = makeProjection(e.w, e.h)]
                   ELSE st)

\* Mutant of ClampPitch: only the upper limit is applied.
ClampPitchAboveOnly(p) == IF p > PitchLimit THEN PitchLimit ELSE p

\* The clamp of pitch (lines 586-587).
ClampPitch(p) ==
    LET q == IF p > PitchLimit THEN PitchLimit ELSE p
    IN  IF q < 0 - PitchLimit THEN 0 - PitchLimit ELSE q

\* yaw and pitch after the arrow keys (lines 577-587), with dt = d.
Rotate(y, p, d, left, right, up, down) ==
    LET y1 == IF left  THEN y  - rotationSpeed * d ELSE y
        y2 == IF right THEN y1 + rotationSpeed * d ELSE y1
        p1 == IF up    THEN p  + (rotationSpeed * d) \div 2 ELSE p
        p2 == IF down  THEN p1 - (rotationSpeed * d) \div 2 ELSE p1
    IN  <<y2, ClampPitch(p2)>>

\* A planet after the body of the update loop (lines 595-596), with dt = d.
Advance(p, d) ==
    [p EXCEPT !.orbitAngle = @ + p.orbitSpeed * d,
              !.selfAngle  = @ + p.selfSpeed * d]

\* Mutant of UpdateLoop: the loop runs over copies (`auto p` for `auto& p`).
RECURSIVE UpdateLoopOnCopies(_, _, _, _)
UpdateLoopOnCopies(i, ps, d, log) ==
    IF i > Len(ps) THEN [planets |-> ps, log |-> log]
    ELSE UpdateLoopOnCopies(i + 1, ps, d, Append(log, Did("advance", i, d)))

\* The update loop (lines 593-597) from the i-th planet on.
RECURSIVE UpdateLoop(_, _, _, _)
UpdateLoop(i, ps, d, log) ==
    IF i > Len(ps) THEN [planets |-> ps, log |-> log]
    ELSE UpdateLoop(i + 1, [ps EXCEPT ![i] = Advance(@, d)], d,
                    Append(log, Did("advance", i, d)))

\* The draw loop (lines 613-629) from the i-th planet on: one glDrawArrays each.
RECURSIVE DrawLoop(_, _, _)
DrawLoop(i, ps, log) ==
    IF i > Len(ps) THEN log
    ELSE DrawLoop(i + 1, ps, Append(log, Did("draw", i, 0)))

\* Mutant of AfterLink: main returns 1 when the link failed.
AfterLinkChecked(success) ==
    IF success THEN [pc |-> "loadOBJ", status |-> -1] ELSE [pc |-> "exit", status |-> 1]

\* Where main goes after LinkProgram returned (lines 52-63, 443): on, whatever
\* GL_LINK_STATUS was.
AfterLink(success) == [pc |-> "loadOBJ", status |-> -1]

\* Mutant of Releases: the texture is not deleted.
ReleasesWithoutTexture ==
    << <<"delete", "VBO">>, <<"delete", "VAO">>, <<"delete", "prog">> >>

\* The glDelete calls after the loop (lines 638-641).
Releases ==
    << <<"delete", "VBO">>, <<"delete", "VAO">>, <<"delete", "tex">>, <<"delete", "prog">> >>

----------------------------------------------------------------------------
\* main, one action per step.

MInit ==
    /\ pc = "glewInit"
    /\ exitStatus = -1
    /\ windowOpen = TRUE
    /\ err = -1
    /\ linkSuccess = FALSE
    /\ modelData = <<>>
    /\ loaded = "none"
    /\ vertexCount = 0
    /\ tex = -1
    /\ glLog = <<>>
    /\ yaw = 0
    /\ pitch = 0
    /\ camFront = <<0, 0>>
    /\ proj = <<1, 1>>
    /\ randState = 0
    /\ planets = <<>>
    /\ dt = 0
    /\ frame = 0
    /\ elapsed = 0
    /\ frameLog = <<>>

\* glewInit and its check (lines 424-438).
GlewInit ==
    /\ pc = "glewInit"
    /\ \E e \in {GLEW_OK, 1} :
         /\ err' = e
         /\ IF e # GLEW_OK
            THEN pc' = "exit" /\ exitStatus' = 1
            ELSE pc' = "shaders" /\ UNCHANGED exitStatus
    /\ UNCHANGED <<lvars, windowOpen, linkSuccess, modelData, loaded, vertexCount, tex, glLog,
                   yaw, pitch, camFront, proj, randState, planets, dt, frame, elapsed,
                   frameLog>>

\* The shader program (lines 441-450): the link succeeds or not.
Shaders ==
    /\ pc = "shaders"
    /\ \E success \in BOOLEAN :
         /\ linkSuccess' = success
         /\ pc' = AfterLink(success).pc
         /\ exitStatus' = AfterLink(success).status
    /\ glLog' = glLog \o << <<"create", "vert">>, <<"create", "frag">>,
                            <<"create", "prog">>, <<"delete", "vert">>,
                            <<"delete", "frag">> >>
    /\ UNCHANGED <<lvars, windowOpen, err, modelData, loaded, vertexCount, tex,
                   yaw, pitch, camFront, proj, randState, planets, dt, frame, elapsed,
                   frameLog>>

\* LoadOBJ("model.obj", modelData) and its check (lines 453-455).
LoadModel ==
    /\ pc = "loadOBJ"
    /\ \E file \in SampleFiles :
         LET r == LoadOBJ(file, modelData)
         IN  /\ modelData' = r.out
             /\ IF r.thrown
                THEN pc' = "aborted" /\ UNCHANGED <<loaded, exitStatus>>
                ELSE IF ~r.ok
                THEN pc' = "exit" /\ exitStatus' = 1 /\ loaded' = "false"
                ELSE pc' = "createMesh" /\ loaded' = "true" /\ UNCHANGED exitStatus
    /\ UNCHANGED <<lvars, windowOpen, err, linkSuccess, vertexCount, tex, glLog,
                   yaw, pitch, camFront, proj, randState, planets, dt, frame, elapsed,
                   frameLog>>

\* CreateMeshFromInterleaved(modelData) (lines 349-373, 457).
CreateMesh ==
    /\ pc = "createMesh"
    /\ vertexCount' = Len(modelData) \div 5
    /\ glLog' = glLog \o << <<"create", "VAO">>, <<"create", "VBO">> >>
    /\ pc' = "loadTexture"
    /\ UNCHANGED <<lvars, exitStatus, windowOpen, err, linkSuccess, modelData, loaded, tex,
                   yaw, pitch, camFront, proj, randState, planets, dt, frame, elapsed,
                   frameLog>>

\* LoadTextureFromFile and its check (lines 203-231, 460-461).
LoadTexture ==
    /\ pc = "loadTexture"
    /\ \/ /\ tex' = 0
          /\ pc' = "exit"
          /\ exitStatus' = 1
          /\ UNCHANGED glLog
       \/ /\ tex' = 1
          /\ glLog' = Append(glLog, <<"create", "tex">>)
          /\ pc' = "initScene"
          /\ UNCHANGED exitStatus
    /\ UNCHANGED <<lvars, windowOpen, err, linkSuccess, modelData, loaded, vertexCount,
                   yaw, pitch, camFront, proj, randState, planets, dt, frame, elapsed,
                   frameLog>>

\* The camera, the projection, the planets and the clock (lines 463-542).
InitScene ==
    /\ pc = "initScene"
    /\ yaw' = -90
    /\ pitch' = -15
    /\ camFront' = <<yaw', pitch'>>
    /\ proj' = makeProjection(1200, 900)
    /\ \E seed \in SeedSet :
         LET b == BuildPlanets(0, <<Sun>>, seed)
         IN  planets' = b.planets /\ randState' = b.rand
    /\ pc' = "loopTest"
    /\ UNCHANGED <<lvars, exitStatus, windowOpen, err, linkSuccess, modelData, loaded,
                   vertexCount, tex, glLog, dt, frame, elapsed, frameLog>>

\* window.isOpen() holds: an iteration starts and measures dt (lines 544-546).
BeginIteration ==
    /\ pc = "loopTest"
    /\ windowOpen
    /\ frame < MaxFrames
    /\ \E d \in DtSet : dt' = d /\ elapsed' = elapsed + d
    /\ frame' = frame + 1
    /\ frameLog' = <<>>
    /\ pc' = "pollEvents"
    /\ UNCHANGED <<lvars, exitStatus, windowOpen, err, linkSuccess, modelData, loaded,
                   vertexCount, tex, glLog, yaw, pitch, camFront, proj, randState,
                   planets>>

\* The event loop (lines 548-558).
PollEvents ==
    /\ pc = "pollEvents"
    /\ \E evs \in EventQueues :
         LET st == Drain(evs, 1, [open |-> windowOpen, proj |-> proj,
                                  log |-> Append(frameLog, Did("poll", 0, 0))])
         IN  /\ windowOpen' = st.open
             /\ proj' = st.proj
             /\ frameLog' = st.log
    /\ pc' = "camera"
    /\ UNCHANGED <<lvars, exitStatus, err, linkSuccess, modelData, loaded, vertexCount, tex,
                   glLog, yaw, pitch, camFront, randState, planets, dt, frame, elapsed>>

\* The camera update (lines 560-590), with any of the arrow keys held.
Camera ==
    /\ pc = "camera"
    /\ \E left \in BOOLEAN, right \in BOOLEAN, up \in BOOLEAN, down \in BOOLEAN :
         LET yp == Rotate(yaw, pitch, dt, left, right, up, down)
         IN  /\ yaw' = yp[1]
             /\ pitch' = yp[2]
             /\ camFront' = yp
    /\ frameLog' = Append(frameLog, Did("camera", 0, dt))
    /\ pc' = "update"
    /\ UNCHANGED <<lvars, exitStatus, windowOpen, err, linkSuccess, modelData, loaded,
                   vertexCount, tex, glLog, proj, randState, planets, dt, frame, elapsed>>

\* The update of the planets (lines 593-597).
Update ==
    /\ pc = "update"
    /\ LET u == UpdateLoop(1, planets, dt, frameLog)
       IN  planets' = u.planets /\ frameLog' = u.log
    /\ pc' = "render"
    /\ UNCHANGED <<lvars, exitStatus, windowOpen, err, linkSuccess, modelData, loaded,
                   vertexCount, tex, glLog, yaw, pitch, camFront, proj, randState, dt,
                   frame, elapsed>>

\* The clear and the draws (lines 600-633).
Render ==
    /\ pc = "render"
    /\ frameLog' = DrawLoop(1, planets, Append(frameLog, Did("clear", 0, 0)))
    /\ pc' = "display"
    /\ UNCHANGED <<lvars, exitStatus, windowOpen, err, linkSuccess, modelData, loaded,
                   vertexCount, tex, glLog, yaw, pitch, camFront, proj, randState,
                   planets, dt, frame, elapsed>>

\* window.display() (line 635).
Display ==
    /\ pc = "display"
    /\ frameLog' = Append(frameLog, Did("display", 0, 0))
    /\ pc' = "loopTest"
    /\ UNCHANGED <<lvars, exitStatus, windowOpen, err, linkSuccess, modelData, loaded,
                   vertexCount, tex, glLog, yaw, pitch, camFront, proj, randState,
                   planets, dt, frame, elapsed>>

\* window.isOpen() fails: the releases and return 0 (lines 638-643).
Shutdown ==
    /\ pc = "loopTest"
    /\ ~windowOpen
    /\ glLog' = glLog \o Releases
    /\ pc' = "exit"
    /\ exitStatus' = 0
    /\ UNCHANGED <<lvars, windowOpen, err, linkSuccess, modelData, loaded, vertexCount, tex,
                   yaw, pitch, camFront, proj, randState, planets, dt, frame, elapsed,
                   frameLog>>

MNext ==
    \/ GlewInit \/ Shaders \/ LoadModel \/ CreateMesh \/ LoadTexture \/ InitScene
    \/ BeginIteration \/ PollEvents \/ Camera \/ Update \/ Render \/ Display
    \/ Shutdown

----------------------------------------------------------------------------
\* Specifications.

Init == LInit /\ MInit

\* A run of main.
Spec == Init /\ [][MNext]_vars

\* A call of LoadOBJ with an empty stream, on any modelled file.
SpecLoad == Init /\ [][LNext]_vars


----------------------------------------------------------------------------
\* Mesh loader: what the claims speak of.

\* The places of a face's tokens in fan order: 1,2,3, 1,3,4, ..., 1,n-1,n.
FanRefs(n) ==
    IF n < 3 THEN <<>>
    ELSE [j \in 1 .. 3 * (n - 2) |->
            IF (j - 1) % 3 = 0 THEN 1 ELSE ((j - 1) \div 3) + 1 + ((j - 1) % 3)]

\* The part of the stream appended while the k-th face line was processed.
Segment(k) ==
    SubSeq(outVertices, faceLog[k].from + 1,
           IF k < Len(faceLog) THEN faceLog[k + 1].from ELSE Len(outVertices))

\* A stream cut into vertices of 5 floats.
VerticesOf(seg) == [i \in 1 .. (Len(seg) \div 5) |-> SubSeq(seg, 5 * i - 4, 5 * i)]
PositionsOf(seg) == [i \in 1 .. (Len(seg) \div 5) |-> SubSeq(seg, 5 * i - 4, 5 * i - 2)]

\* A token whose numbers std::stoi accepts and whose position index is in 1 .. np.
ValidPos(tok, np) ==
    LET r == parseIndex(tok) IN ~r.thrown /\ r.vi >= 1 /\ r.vi <= np

\* The face is processed without a throw: it is skipped, or all its tokens parse.
NoThrow(f) ==
    Len(f.tokens) < 3 \/ \A i \in DOMAIN f.tokens : ~parseIndex(f.tokens[i]).thrown

\* The fan places of face f whose token has a valid position index.
ValidFanRefs(f) ==
    LET Ok(i) == ValidPos(f.tokens[i], f.np)
    IN  SelectSeq(FanRefs(Len(f.tokens)), Ok)

\* C1: a face line with n >= 3 references, all valid position indices, appends
\* exactly 3*(n-2) vertices, whose positions are those of v0,v1,v2, v0,v2,v3, ...,
\* v0,v(n-2),v(n-1); a face line with fewer than 3 references appends nothing.
C1_FanTriangulation ==
    \A k \in DOMAIN faceLog :
        LET f == faceLog[k]
            n == Len(f.tokens)
            fan == FanRefs(n)
        IN  /\ n < 3 => Segment(k) = <<>>
            /\ (n >= 3 /\ \A i \in 1 .. n : ValidPos(f.tokens[i], f.np))
                 => /\ Len(Segment(k)) = 5 * 3 * (n - 2)
                    /\ PositionsOf(Segment(k)) =
                         [j \in 1 .. 3 * (n - 2) |->
                            positions[parseIndex(f.tokens[fan[j]]).vi]]

\* The quad `f 1 2 3 4` over 4 positions has appended positions 1,2,3,1,3,4.
C1_Witness ==
    \E k \in DOMAIN faceLog :
        /\ faceLog[k].tokens = SubSeq(PlainTokens, 1, 4)
        /\ faceLog[k].np = 4
        /\ PositionsOf(Segment(k)) =
             << PosOf(1), PosOf(2), PosOf(3), PosOf(1), PosOf(3), PosOf(4) >>

\* C2: a reference whose position index is <= 0 or beyond the positions read so far
\* appends no vertex, every other reference of the fan appends the position stored
\* at its index, and the load goes on: no face whose tokens are numbers ends it.
C2_SkipInvalidPosition ==
    /\ \A k \in DOMAIN faceLog :
          LET f == faceLog[k]
              refs == ValidFanRefs(f)
          IN  NoThrow(f) =>
                PositionsOf(Segment(k)) =
                  [j \in 1 .. Len(refs) |-> positions[parseIndex(f.tokens[refs[j]]).vi]]
    /\ Len(outVertices) % 5 = 0
    /\ (\A k \in DOMAIN faceLog : NoThrow(faceLog[k])) => lpc # "aborted"

\* A face with a reference out of range has appended two vertices, a `v` line was
\* read after it, and LoadOBJ has returned.
C2_Witness ==
    /\ lpc = "returned"
    /\ \E k \in DOMAIN faceLog :
          /\ Len(faceLog[k].tokens) >= 3
          /\ NoThrow(faceLog[k])
          /\ \E i \in DOMAIN faceLog[k].tokens : ~ValidPos(faceLog[k].tokens[i], faceLog[k].np)
          /\ Len(Segment(k)) = 10
          /\ Len(positions) > faceLog[k].np

\* The vertices face f appends when a reference is skipped exactly when Skip(r, f)
\* holds of its parsed token r, and every other reference gets UV(r, f).
AppendedBy(f, Skip(_, _), UV(_, _)) ==
    LET Keep(i) == ~Skip(parseIndex(f.tokens[i]), f)
        refs == SelectSeq(FanRefs(Len(f.tokens)), Keep)
    IN  [j \in 1 .. Len(refs) |->
           LET r == parseIndex(f.tokens[refs[j]])
           IN  positions[r.vi] \o UV(r, f)]

BadPosition(r, f) == r.vi <= 0 \/ r.vi > f.np
BadPositionOrTexBeyond(r, f) == BadPosition(r, f) \/ r.ti > f.nt
TexOrZero(r, f) == IF r.ti >= 1 /\ r.ti <= f.nt THEN texcoords[r.ti] ELSE <<0, 0>>

\* C3 as stated: a reference with a valid position index whose texture index is
\* beyond the `vt` lines read so far appends no vertex.
C3_AsStated ==
    \A k \in DOMAIN faceLog :
        NoThrow(faceLog[k]) =>
            VerticesOf(Segment(k)) = AppendedBy(faceLog[k], BadPositionOrTexBeyond, TexOrZero)

\* C3, amended: every reference with a valid position index appends a vertex; its
\* UV is the texture coordinate at its texture index when that index is in
\* 1 .. (number of `vt` lines read so far), and (0,0) when the texture index is
\* absent, <= 0 or beyond that number.
C3_TexIndexFallback ==
    \A k \in DOMAIN faceLog :
        NoThrow(faceLog[k]) =>
            VerticesOf(Segment(k)) = AppendedBy(faceLog[k], BadPosition, TexOrZero)

\* A triangle with the reference 2/7, read after 3 positions and 1 texture
\* coordinate, has appended 3 vertices, the one of 2/7 with UV (0,0).
C3_Witness ==
    \E k \in DOMAIN faceLog :
        /\ \E i \in DOMAIN faceLog[k].tokens : faceLog[k].tokens[i] = <<"2", "/", "7">>
        /\ faceLog[k].np >= 3
        /\ faceLog[k].nt = 1
        /\ Len(faceLog[k].tokens) = 3
        /\ Len(Segment(k)) = 15
        /\ \E j \in 1 .. 3 : VerticesOf(Segment(k))[j] = PosOf(2) \o <<0, 0>>

\* C4 as stated: the stream length is a multiple of 5, the vertex count a multiple
\* of 3, and every 3 consecutive vertices are a fan triangle (v0, v(i), v(i+1)) of
\* one face line of the file.
C4_AsStated ==
    lpc \in {"lines", "returned"} =>
        /\ Len(outVertices) % 5 = 0
        /\ (Len(outVertices) \div 5) % 3 = 0
        /\ \A g \in 1 .. (Len(outVertices) \div 15) :
              \E k \in DOMAIN faceLog :
                  LET f == faceLog[k]
                  IN  \E i \in 2 .. Len(f.tokens) - 1 :
                         /\ \A m \in {1, i, i + 1} : ValidPos(f.tokens[m], f.np)
                         /\ PositionsOf(SubSeq(outVertices, 15 * g - 14, 15 * g)) =
                              << positions[parseIndex(f.tokens[1]).vi],
                                 positions[parseIndex(f.tokens[i]).vi],
                                 positions[parseIndex(f.tokens[i + 1]).vi] >>

\* C5: LoadOBJ, called with an empty stream, returns false exactly when the file
\* did not open or no reference of any face line had a valid position index; when
\* it returns false the stream is empty, when it returns true it holds a vertex.
C5_FailureIffNoVertex ==
    lpc = "returned" =>
        /\ loadResult \in {"true", "false"}
        /\ loadResult = "false" <=>
             (~fileOpened \/ \A k \in DOMAIN faceLog : ValidFanRefs(faceLog[k]) = <<>>)
        /\ loadResult = "false" => outVertices = <<>>
        /\ loadResult = "true" => Len(outVertices) >= 5

\* LoadOBJ has returned false on a file that opened and has 3 positions and a face
\* line of 3 references, and has returned true on no file yet.
C5_Witness ==
    /\ lpc = "returned"
    /\ loadResult = "false"
    /\ fileOpened
    /\ Len(positions) >= 3
    /\ \E k \in DOMAIN faceLog : Len(faceLog[k].tokens) >= 3


----------------------------------------------------------------------------
\* main: what the claims speak of.

\* The positions of main inside the frame loop, and those at which the scene exists.
IterationPcs == {"pollEvents", "camera", "update", "render", "display"}
ScenePcs == IterationPcs \cup {"loopTest"}

\* C6: whatever arrow keys are held and whatever dt is, pitch is within
\* [-89, 89] after every camera update, and so is the pitch from which camFront was
\* last computed, which is the one the view matrix is built from.
C6_PitchClamped ==
    pc \in ScenePcs \/ (pc = "exit" /\ frame >= 1) =>
        /\ pitch >= 0 - PitchLimit /\ pitch <= PitchLimit
        /\ camFront[2] >= 0 - PitchLimit /\ camFront[2] <= PitchLimit
        /\ pc \in {"update", "render", "display", "loopTest"} => camFront = <<yaw, pitch>>

\* The camera update has left pitch at the upper limit: the clamp has acted.
C6_Witness ==
    pc = "update" /\ pitch = PitchLimit /\ camFront[2] = PitchLimit

\* What an iteration with dt = d over n bodies does, in order; closing tells whether
\* the event loop handled a close request.
ExpectedFrame(d, n, closing) ==
    << Did("poll", 0, 0) >>
    \o (IF closing THEN << Did("close", 0, 0) >> ELSE <<>>)
    \o << Did("camera", 0, d) >>
    \o [i \in 1 .. n |-> Did("advance", i, d)]
    \o << Did("clear", 0, 0) >>
    \o [i \in 1 .. n |-> Did("draw", i, 0)]
    \o << Did("display", 0, 0) >>

\* How much of ExpectedFrame is done when main is at position p of an iteration.
DoneAt(p, n, closing) ==
    LET c == IF closing THEN 1 ELSE 0
    IN  CASE p = "pollEvents" -> 0
          [] p = "camera"     -> 1 + c
          [] p = "update"     -> 2 + c
          [] p = "render"     -> 2 + c + n
          [] p = "display"    -> 3 + c + 2 * n
          [] p = "loopTest"   -> 4 + c + 2 * n

\* The planet p after its angles advanced over e seconds in all.
AdvancedBy(p, e) ==
    [p EXCEPT !.orbitAngle = @ + p.orbitSpeed * e, !.selfAngle = @ + p.selfSpeed * e]

\* C7: an iteration is poll, camera update, the advance of every body in insertion
\* order, the clear, the draw of every body in insertion order, the presentation, in
\* this order, the camera update and every advance with the dt measured at the start
\* of the iteration; and the bodies are at all times those of the scene built at
\* startup, in its order, each advanced once per iteration by that iteration's dt.
C7_FrameSequence ==
    (pc \in ScenePcs /\ frame >= 1) =>
        LET n == Len(planets)
            closing == ~windowOpen
            done == IF pc \in {"pollEvents", "camera", "update"} THEN elapsed - dt ELSE elapsed
        IN  /\ n = planetCount + 1
            /\ frameLog = SubSeq(ExpectedFrame(dt, n, closing), 1, DoneAt(pc, n, closing))
            /\ \E seed \in SeedSet :
                  LET scene == BuildPlanets(0, <<Sun>>, seed).planets
                  IN  planets = [i \in 1 .. n |-> AdvancedBy(scene[i], done)]

\* The second iteration has ended, with a dt other than the first's, both above 0.
C7_Witness ==
    /\ pc = "loopTest"
    /\ frame = 2
    /\ dt > 0
    /\ elapsed > dt
    /\ elapsed # 2 * dt
    /\ Len(frameLog) = 4 + 2 * (planetCount + 1)

\* C8 as stated: once the close request is handled the driver issues no further
\* advance of a body, draw call or presentation, and it ends with status 0.
C8_AsStated ==
    [][ /\ ~windowOpen =>
            \A j \in (Len(frameLog) + 1) .. Len(frameLog') :
                frameLog'[j].op \notin {"advance", "draw", "display"}
        /\ (~windowOpen' /\ pc' = "exit") => exitStatus' = 0 ]_vars

\* The creations and deletions of the shader program, the mesh and the texture.
Resources == {"prog", "VAO", "VBO", "tex"}
IsResource(e) == e[2] \in Resources
ResourceLog == SelectSeq(glLog, IsResource)
KindOf(e) == IF e[2] \in {"VAO", "VBO"} THEN "mesh" ELSE e[2]
Acquired ==
    << <<"create", "prog">>, <<"create", "VAO">>, <<"create", "VBO">>, <<"create", "tex">> >>
\* The kinds of the resources deleted, in order, one entry per run of a kind.
ReleasedKinds ==
    LET IsDelete(e) == e[1] = "delete"
        dels == SelectSeq(ResourceLog, IsDelete)
        First(i) == i = 1 \/ KindOf(dels[i]) # KindOf(dels[i - 1])
        idxs == SelectSeq([i \in 1 .. Len(dels) |-> i], First)
    IN  [j \in 1 .. Len(idxs) |-> KindOf(dels[idxs[j]])]
Count(op, r) == Cardinality({i \in DOMAIN glLog : glLog[i] = <<op, r>>})

\* C9 as stated: after the loop each resource is released once, in the reverse of
\* the order of acquisition: texture, mesh, shader program.
C9_AsStated ==
    (pc = "exit" /\ frame >= 1) =>
        /\ \A r \in Resources : Count("create", r) = 1 /\ Count("delete", r) = 1
        /\ ReleasedKinds = <<"tex", "mesh", "prog">>

\* C9, amended: on a run that enters the loop the shader program, the mesh (VAO,
\* VBO) and the texture are each created once before the first iteration, none is
\* created or released while the loop runs, and after the loop each is released
\* once, in the order mesh (VBO, then VAO), texture, shader program.
C9_ResourceLifecycle ==
    /\ pc \in ScenePcs => ResourceLog = Acquired
    /\ (pc = "exit" /\ frame >= 1) =>
          /\ \A r \in Resources : Count("create", r) = 1 /\ Count("delete", r) = 1
          /\ SubSeq(ResourceLog, 1, 4) = Acquired
          /\ ReleasedKinds = <<"mesh", "tex", "prog">>
          /\ Len(ResourceLog) = 8
          /\ ResourceLog[5] = <<"delete", "VBO">>

\* main has returned 0 after two iterations.
C9_Witness ==
    pc = "exit" /\ exitStatus = 0 /\ frame = 2 /\ Len(glLog) > 9

\* C10: when glewInit fails, LoadOBJ returns false or the texture is not loaded,
\* main returns a non-zero status and no iteration was ever started; a failed link
\* alone is no such end: main ends before the first iteration only with one of
\* those three failures, and the loop is entered with a program whose link failed.
C10_FatalStartupErrors ==
    /\ (err > GLEW_OK \/ loaded = "false" \/ tex = 0) =>
          /\ pc = "exit"
          /\ exitStatus > 0
          /\ frame = 0
          /\ frameLog = <<>>
          /\ planets = <<>>
    /\ (pc = "exit" /\ frame = 0) => (err > GLEW_OK \/ loaded = "false" \/ tex = 0)
    /\ (pc = "loopTest" /\ frame = 0) => ENABLED BeginIteration

\* The texture failed to load after a link failure and a successful mesh load, and
\* main has returned 1.
C10_Witness ==
    pc = "exit" /\ exitStatus = 1 /\ tex = 0 /\ loaded = "true" /\ ~linkSuccess


====
